---- MODULE Spec2Model ----
(***************************************************************************)
(* Model of the query-interpretation and filter-evaluation pipeline of the *)
(* Calgary building dashboard backend:                                     *)
(*   backend/app.py          apply_filter                                  *)
(*   backend/llm_handler.py  query, process_query, extract_json,           *)
(*                           fallback_parser                               *)
(*                                                                         *)
(* Python strings are sequences of one-character strings, so that lower(), *)
(* upper(), substring tests, str() and float() are computed rather than    *)
(* assumed.  Python dicts are association lists (sequences of <<key,       *)
(* value>> pairs, in insertion order).                                     *)
(***************************************************************************)
EXTENDS Integers, Sequences, FiniteSets, TLC

(***************************************************************************)
(* Bounds of the model.                                                    *)
(***************************************************************************)
\* longest record sequence handed to apply_filter
MaxRecords == 2
\* longest "filters" array handed to apply_filter
MaxFilters == 2
\* longest text spelt from TextChars handed to extract_number
MaxTextLen == 2

(***************************************************************************)
(* Python strings.                                                         *)
(***************************************************************************)
UpperAlphabet ==
  <<"A","B","C","D","E","F","G","H","I","J","K","L","M",
    "N","O","P","Q","R","S","T","U","V","W","X","Y","Z">>

LowerAlphabet ==
  <<"a","b","c","d","e","f","g","h","i","j","k","l","m",
    "n","o","p","q","r","s","t","u","v","w","x","y","z">>

LowerChar(c) ==
  IF \E i \in 1..26 : UpperAlphabet[i] = c
  THEN LowerAlphabet[CHOOSE i \in 1..26 : UpperAlphabet[i] = c]
  ELSE c

UpperChar(c) ==
  IF \E i \in 1..26 : LowerAlphabet[i] = c
  THEN UpperAlphabet[CHOOSE i \in 1..26 : LowerAlphabet[i] = c]
  ELSE c

\* str.lower()
Lower(s) == [i \in 1..Len(s) |-> LowerChar(s[i])]

\* str.upper()
Upper(s) == [i \in 1..Len(s) |-> UpperChar(s[i])]

\* p in s  (substring test)
Contains(s, p) ==
  \E i \in 1..(Len(s) - Len(p) + 1) : SubSeq(s, i, i + Len(p) - 1) = p

\* s.startswith(p)
StartsWith(s, p) == Len(p) <= Len(s) /\ SubSeq(s, 1, Len(p)) = p

\* s.endswith(p)
EndsWith(s, p) ==
  Len(p) <= Len(s) /\ SubSeq(s, Len(s) - Len(p) + 1, Len(s)) = p

Digits == <<"0","1","2","3","4","5","6","7","8","9">>

IsDigit(c) == \E i \in 1..10 : Digits[i] = c

DigitValue(c) == (CHOOSE i \in 1..10 : Digits[i] = c) - 1

\* s.strip() for the whitespace of the model's alphabet, the blank
RECURSIVE StripLeft(_)
StripLeft(s) ==
  IF s # <<>> /\ s[1] = " " THEN StripLeft(Tail(s)) ELSE s

RECURSIVE StripRight(_)
StripRight(s) ==
  IF s # <<>> /\ s[Len(s)] = " "
  THEN StripRight(SubSeq(s, 1, Len(s) - 1))
  ELSE s

Strip(s) == StripRight(StripLeft(s))

\* value of a string of decimal digits
RECURSIVE DigitsValue(_)
DigitsValue(s) ==
  IF s = <<>> THEN 0
  ELSE 10 * DigitsValue(SubSeq(s, 1, Len(s) - 1)) + DigitValue(s[Len(s)])

\* decimal digits of a natural number
RECURSIVE NatToStr(_)
NatToStr(n) ==
  IF n < 10 THEN <<Digits[n + 1]>>
  ELSE NatToStr(n \div 10) \o <<Digits[(n % 10) + 1]>>

IntToStr(n) == IF n < 0 THEN <<"-">> \o NatToStr(0 - n) ELSE NatToStr(n)

(***************************************************************************)
(* Python values.  A number is an int or a float; the floats of the model  *)
(* are integral and every number is far inside the range of a double, so   *)
(* comparisons are exact.                                                  *)
(***************************************************************************)
PyInt(n)   == [k |-> "int",   n |-> n, s |-> <<>>]
PyFloat(n) == [k |-> "float", n |-> n, s |-> <<>>]
PyStr(s)   == [k |-> "str",   n |-> 0, s |-> s]
PyNone     == [k |-> "None",  n |-> 0, s |-> <<>>]
PyList     == [k |-> "list",  n |-> 0, s |-> <<>>]

\* isinstance(v, (int, float))
IsNumber(v) == v.k \in {"int", "float"}

\* The outcome of evaluating an expression: a value or a raised exception.
Ok(v)      == [exc |-> "none", val |-> v]
Raise(e)   == [exc |-> e, val |-> PyNone]

\* The text float() accepts, over the alphabet of the model (letters,
\* digits, blank, "-", which spell no exponent, "inf" or "nan"): blanks,
\* an optional sign, one or more digits, blanks.
IsNumericText(s) ==
  LET t == Strip(s)
      u == IF t # <<>> /\ t[1] = "-" THEN Tail(t) ELSE t
  IN  u # <<>> /\ \A i \in 1..Len(u) : IsDigit(u[i])

NumericTextValue(s) ==
  LET t == Strip(s)
  IN  IF t[1] = "-" THEN 0 - DigitsValue(Tail(t)) ELSE DigitsValue(t)

\* float(v): the number, ValueError for text that is no number,
\* TypeError for None and for containers
Float(v) ==
  CASE IsNumber(v)  -> Ok(PyFloat(v.n))
    [] v.k = "str"  -> IF IsNumericText(v.s)
                       THEN Ok(PyFloat(NumericTextValue(v.s)))
                       ELSE Raise("ValueError")
    [] OTHER        -> Raise("TypeError")

\* str(v)
Str(v) ==
  CASE v.k = "str"   -> v.s
    [] v.k = "int"   -> IntToStr(v.n)
    [] v.k = "float" -> IntToStr(v.n) \o <<".", "0">>
    [] v.k = "None"  -> <<"N","o","n","e">>
    [] OTHER         -> <<"[","]">>

(***************************************************************************)
(* Python dicts.                                                           *)
(***************************************************************************)
\* k in d
HasKey(d, k) == \E i \in 1..Len(d) : d[i][1] = k

\* d.get(k, default)
DictGet(d, k, default) ==
  IF HasKey(d, k)
  THEN d[CHOOSE i \in 1..Len(d) : d[i][1] = k][2]
  ELSE default

(***************************************************************************)
(* The strings of the program and of the model's inputs.                   *)
(***************************************************************************)
S_height == <<"h","e","i","g","h","t">>

S_value == <<"v","a","l","u","e">>

S_assessed_value == <<"a","s","s","e","s","s","e","d","_","v","a","l","u","e">>

S_zoning == <<"z","o","n","i","n","g">>

S_zone == <<"z","o","n","e">>

S_type == <<"t","y","p","e">>

S_building_type == <<"b","u","i","l","d","i","n","g","_","t","y","p","e">>

S_address == <<"a","d","d","r","e","s","s">>

S_street == <<"s","t","r","e","e","t">>

S_land_size == <<"l","a","n","d","_","s","i","z","e">>

S_land_size_sf == <<"l","a","n","d","_","s","i","z","e","_","s","f">>

S_lot_size == <<"l","o","t","_","s","i","z","e">>

S_id == <<"i","d">>

S_latitude == <<"l","a","t","i","t","u","d","e">>

S_footprint == <<"f","o","o","t","p","r","i","n","t">>

S_colour == <<"c","o","l","o","u","r">>

S_HEIGHT == <<"H","E","I","G","H","T">>

S_ID == <<"I","D">>

S_Value == <<"V","a","l","u","e">>

S_addr1 == <<"5"," ","A","V","E"," ","N","W">>

S_addr2 == <<"7"," ","S","T"," ","S","W">>

S_n100 == <<"1","0","0">>

S_n1 == <<"1">>

S_nw == <<"n","w">>

S_zon1 == <<"C","-","1">>

S_zon2 == <<"R","-","2">>

S_Commercial == <<"C","o","m","m","e","r","c","i","a","l">>

S_Residential == <<"R","e","s","i","d","e","n","t","i","a","l">>

S_abc == <<"a","b","c">>

S_id1 == <<"1">>

S_id2 == <<"2">>

S_id3 == <<"3">>

(***************************************************************************)
(* backend/app.py: apply_filter.                                           *)
(***************************************************************************)
VARIABLES
  buildings,      \* apply_filter's argument: the record sequence
  filter_obj,     \* apply_filter's argument: the parsed filter object
  filters,        \* local: the list of predicates
  bidx,           \* position of the outer loop (for building in buildings)
  fidx,           \* position of the inner loop (for f in filters)
  matches_all,    \* local flag of the current building
  matching_ids,   \* local: the result list
  epc,            \* program counter of apply_filter
  eraised         \* the exception that escaped apply_filter, or "none"

evars ==
  <<buildings, filter_obj, filters, bidx, fidx, matches_all, matching_ids,
    epc, eraised>>

\* backend/llm_handler.py: the state of one call of process_query
VARIABLES
  pc,             \* program counter of process_query
  user_query,     \* the argument of process_query
  gateway,        \* what the HTTP exchange of query() will do
  response,       \* local: the decoded body
  generated_text, \* local: the content of the first choice
  pq_filter_obj,  \* local filter_obj: what extract_json gave
  result,         \* the dict process_query returned
  exc,            \* the exception in flight, or the one that escaped
  site,           \* where fallback_parser was called from
  query_lower,    \* fallback_parser's local
  fb_filters,     \* fallback_parser's local filters
  n_query,        \* calls of query() so far
  n_fallback      \* calls of fallback_parser so far

ivars ==
  <<pc, user_query, gateway, response, generated_text, pq_filter_obj, result,
    exc, site, query_lower, fb_filters, n_query, n_fallback>>

\* backend/llm_handler.py: the state of one call of extract_number
VARIABLES
  ntext,          \* the argument text of extract_number
  text_lower,     \* local: the lower-cased text
  npc,            \* program counter of extract_number
  nout            \* how extract_number ended: the value returned or the
                  \* exception raised

nvars == <<ntext, text_lower, npc, nout>>

vars == <<evars, ivars, nvars>>

\* attribute_map without its alias entries
attribute_map_CanonicalOnly ==
  << <<S_height,         S_height>>,
     <<S_assessed_value, S_assessed_value>>,
     <<S_zoning,         S_zoning>>,
     <<S_building_type,  S_building_type>>,
     <<S_address,        S_address>>,
     <<S_land_size_sf,   S_land_size_sf>> >>

\* the alias table (a dict literal)
attribute_map ==
  << <<S_height,         S_height>>,
     <<S_value,          S_assessed_value>>,
     <<S_assessed_value, S_assessed_value>>,
     <<S_zoning,         S_zoning>>,
     <<S_zone,           S_zoning>>,
     <<S_type,           S_building_type>>,
     <<S_building_type,  S_building_type>>,
     <<S_address,        S_address>>,
     <<S_street,         S_address>>,
     <<S_land_size,      S_land_size_sf>>,
     <<S_land_size_sf,   S_land_size_sf>>,
     <<S_lot_size,       S_land_size_sf>> >>

\* the operators of the "numeric comparisons" branch
RelationalOperators == {">", "<", ">=", "<=", "==", "!="}

\* the operators of the "string matching" branch
MatchOperators == {"contains", "equals", "=", "endswith", "startswith"}

\* if 'filters' in filter_obj: filters = filter_obj['filters']
\* else: filters = [filter_obj]
FiltersOf(obj) ==
  IF HasKey(obj, "filters")
  THEN DictGet(obj, "filters", <<>>)
  ELSE <<obj>>

\* (mutant) the alias table consulted without a default: a name outside
\* the table resolves to no field
ActualAttribute_NoDefault(f) ==
  LET attribute == Lower(DictGet(f, "attribute", <<>>))
  IN  DictGet(attribute_map, attribute, <<"None">>)

\* attribute = f.get('attribute', '').lower()
\* actual_attribute = attribute_map.get(attribute, attribute)
ActualAttribute(f) ==
  LET attribute == Lower(DictGet(f, "attribute", <<>>))
  IN  DictGet(attribute_map, attribute, attribute)

\* building_value = building.get(actual_attribute)
BuildingValue(building, f) ==
  DictGet(building, ActualAttribute(f), PyNone)

\* if building_value is None
IsMissing(building_value) == building_value = PyNone

\* The numeric branch: [exc, fails], where fails says that the branch set
\* matches_all to False.
NumericComparison(operator, building_value, value) ==
  LET building_num ==
        IF ~IsNumber(building_value)
        THEN Float(building_value)
        ELSE Ok(building_value)
  IN  IF building_num.exc # "none"
      THEN [exc |-> building_num.exc, fails |-> FALSE]
      ELSE
        LET value_num == Float(value)
        IN  IF value_num.exc # "none"
            THEN [exc |-> value_num.exc, fails |-> FALSE]
            ELSE
              LET b == building_num.val.n
                  v == value_num.val.n
              IN  [exc   |-> "none",
                   fails |->
                     CASE operator = ">"  -> ~(b > v)
                       [] operator = "<"  -> ~(b < v)
                       [] operator = ">=" -> ~(b >= v)
                       [] operator = "<=" -> ~(b <= v)
                       [] operator = "==" -> ~(b = v)
                       [] OTHER           -> ~(b # v)]

\* (mutant) the comparison value not upper-cased
StringMatching_NoUpper(operator, building_value, value) ==
  LET building_str == Upper(Str(building_value))
      value_str    == Str(value)
  IN  [exc   |-> "none",
       fails |->
         CASE operator = "contains"       -> ~Contains(building_str, value_str)
           [] operator \in {"equals","="} -> building_str # value_str
           [] operator = "endswith"       -> ~EndsWith(building_str, value_str)
           [] OTHER                       -> ~StartsWith(building_str, value_str)]

\* The string branch: both sides through str() and upper().
StringMatching(operator, building_value, value) ==
  LET building_str == Upper(Str(building_value))
      value_str    == Upper(Str(value))
  IN  [exc   |-> "none",
       fails |->
         CASE operator = "contains"       -> ~Contains(building_str, value_str)
           [] operator \in {"equals","="} -> building_str # value_str
           [] operator = "endswith"       -> ~EndsWith(building_str, value_str)
           [] OTHER                       -> ~StartsWith(building_str, value_str)]

\* The body of the try statement: an operator of neither list does
\* nothing.
TryBody(operator, building_value, value) ==
  IF operator \in RelationalOperators
  THEN NumericComparison(operator, building_value, value)
  ELSE IF operator \in MatchOperators
  THEN StringMatching(operator, building_value, value)
  ELSE [exc |-> "none", fails |-> FALSE]

\* (mutant) except ValueError alone
Caught_ValueErrorOnly == {"ValueError"}

\* except (ValueError, TypeError)
Caught == {"ValueError", "TypeError"}

\* (mutant) a predicate that passes sets the flag again: the last
\* predicate decides
TestFilter_LastWins(building, f, flag) ==
  LET operator       == DictGet(f, "operator", "")
      value          == DictGet(f, "value", PyNone)
      building_value == BuildingValue(building, f)
  IN  IF IsMissing(building_value)
      THEN [flag |-> FALSE, brk |-> TRUE, exc |-> "none"]
      ELSE
        LET r == TryBody(operator, building_value, value)
        IN  IF r.exc \in Caught
            THEN [flag |-> FALSE, brk |-> TRUE, exc |-> "none"]
            ELSE IF r.exc # "none"
            THEN [flag |-> flag, brk |-> TRUE, exc |-> r.exc]
            ELSE [flag |-> ~r.fails, brk |-> FALSE, exc |-> "none"]

\* One pass of the inner loop's body for predicate f on a building, with
\* the flag as it stands: [flag, brk, exc], the flag after the pass,
\* whether the loop is left by break, and the exception that escapes.
TestFilter(building, f, flag) ==
  LET operator       == DictGet(f, "operator", "")
      value          == DictGet(f, "value", PyNone)
      building_value == BuildingValue(building, f)
  IN  IF IsMissing(building_value)
      THEN [flag |-> FALSE, brk |-> TRUE, exc |-> "none"]
      ELSE
        LET r == TryBody(operator, building_value, value)
        IN  IF r.exc \in Caught
            THEN [flag |-> FALSE, brk |-> TRUE, exc |-> "none"]
            ELSE IF r.exc # "none"
            THEN [flag |-> flag, brk |-> TRUE, exc |-> r.exc]
            ELSE [flag |-> IF r.fails THEN FALSE ELSE flag,
                  brk  |-> FALSE,
                  exc  |-> "none"]

(***************************************************************************)
(* Inputs of apply_filter.  Records as fetch_calgary_buildings builds     *)
(* them (id, address, latitude, zoning, building_type, assessed_value,     *)
(* land_size_sf, footprint, height), and as a cache file may hold them:    *)
(* with a field absent, None, or of another type.                          *)
(***************************************************************************)
Building1 ==
  << <<S_id,             PyStr(S_id1)>>,
     <<S_address,        PyStr(S_addr1)>>,
     <<S_latitude,       PyFloat(51)>>,
     <<S_zoning,         PyStr(S_zon1)>>,
     <<S_building_type,  PyStr(S_Commercial)>>,
     <<S_assessed_value, PyFloat(200)>>,
     <<S_land_size_sf,   PyFloat(50)>>,
     <<S_footprint,      PyList>>,
     <<S_height,         PyFloat(120)>> >>

\* assessed_value None, land_size_sf absent, the height an int
Building2 ==
  << <<S_id,             PyStr(S_id2)>>,
     <<S_address,        PyStr(S_addr2)>>,
     <<S_latitude,       PyFloat(50)>>,
     <<S_zoning,         PyStr(S_zon2)>>,
     <<S_building_type,  PyStr(S_Residential)>>,
     <<S_assessed_value, PyNone>>,
     <<S_footprint,      PyList>>,
     <<S_height,         PyInt(80)>> >>

\* numbers stored as text, a height that is no number, an address and a
\* zoning that read as numbers
Building3 ==
  << <<S_id,             PyStr(S_id3)>>,
     <<S_address,        PyStr(S_n100)>>,
     <<S_latitude,       PyFloat(51)>>,
     <<S_zoning,         PyStr(S_n1)>>,
     <<S_building_type,  PyStr(S_Commercial)>>,
     <<S_assessed_value, PyStr(S_n100)>>,
     <<S_land_size_sf,   PyInt(100)>>,
     <<S_footprint,      PyList>>,
     <<S_height,         PyStr(S_abc)>> >>

Catalogue == {Building1, Building2, Building3}

\* the sequences of at most n distinct records of the catalogue
RecordSeqs(n) ==
  {s \in UNION {[1..m -> Catalogue] : m \in 0..n} :
     \A i, j \in 1..Len(s) : i # j => s[i] # s[j]}

Pred(a, o, v) == << <<"attribute", a>>, <<"operator", o>>, <<"value", v>> >>

\* attribute names: the keys of the alias table, two of them in another
\* letter case, names of fields outside the table (one in upper case), a
\* name of no field, ''
AttributeNames ==
  {S_height, S_value, S_assessed_value, S_zoning, S_zone, S_type,
   S_building_type, S_address, S_street, S_land_size, S_land_size_sf,
   S_lot_size, S_HEIGHT, S_Value, S_id, S_ID, S_latitude, S_footprint,
   S_colour,
   <<>>}

\* the operators of both branches and one of neither
OperatorNames == RelationalOperators \cup MatchOperators \cup {"like"}

ComparisonValues ==
  {PyInt(100), PyStr(S_n100), PyStr(S_n1), PyStr(S_nw), PyStr(S_abc), PyNone}

\* every single predicate
AllPredicates ==
  {Pred(a, o, v) : a \in AttributeNames, o \in OperatorNames,
                   v \in ComparisonValues}

\* the predicates that filter lists are built from
ListPredicates ==
  {Pred(S_height, ">", PyInt(100)),
   Pred(S_height, "contains", PyStr(S_n1)),
   Pred(S_address, "endswith", PyStr(S_nw)),
   Pred(S_Value, ">=", PyStr(S_n100)),
   Pred(S_land_size, "<", PyNone),
   Pred(S_id, "!=", PyInt(100)),
   Pred(S_zone, "like", PyStr(S_abc))}

\* {"filters": [...]} with at most n predicates
FilterLists(n) ==
  {<< <<"filters", fs>> >> :
     fs \in UNION {[1..m -> ListPredicates] : m \in 0..n}}

\* an object with neither "filters" nor a predicate's keys
NoPredicateObject == << <<"foo", PyInt(1)>> >>

\* One record against every single predicate, given bare or in a list of
\* one; record sequences against the filter lists.
EvalInputs ==
  ({<<b>> : b \in Catalogue}
     \X (AllPredicates \cup {<< <<"filters", <<p>> >> >> : p \in AllPredicates}
           \cup {NoPredicateObject}))
  \cup (RecordSeqs(MaxRecords) \X FilterLists(MaxFilters))

InitEvalVars ==
  /\ \E in \in EvalInputs : buildings = in[1] /\ filter_obj = in[2]
  /\ filters = <<>>
  /\ bidx = 0
  /\ fidx = 0
  /\ matches_all = TRUE
  /\ matching_ids = <<>>
  /\ epc = "start"
  /\ eraised = "none"

\* lines 101-125: the filter list, the empty result
EvalStart ==
  /\ UNCHANGED <<ivars, nvars>>
  /\ epc = "start"
  /\ filters' = FiltersOf(filter_obj)
  /\ matching_ids' = <<>>
  /\ bidx' = 1
  /\ epc' = "building"
  /\ UNCHANGED <<buildings, filter_obj, fidx, matches_all, eraised>>

\* lines 127-128 and 182: the next building, or the return
NextBuilding ==
  /\ UNCHANGED <<ivars, nvars>>
  /\ epc = "building"
  /\ IF bidx <= Len(buildings)
     THEN /\ matches_all' = TRUE
          /\ fidx' = 1
          /\ epc' = "filter"
     ELSE /\ epc' = "done"
          /\ UNCHANGED <<matches_all, fidx>>
  /\ UNCHANGED <<buildings, filter_obj, filters, bidx, matching_ids, eraised>>

\* lines 130-177: one predicate on the current building
InnerStep ==
  /\ UNCHANGED <<ivars, nvars>>
  /\ epc = "filter"
  /\ IF fidx <= Len(filters)
     THEN LET t == TestFilter(buildings[bidx], filters[fidx], matches_all)
          IN  /\ matches_all' = t.flag
              /\ eraised' = t.exc
              /\ epc' = IF t.exc # "none" THEN "raised"
                        ELSE IF t.brk THEN "append" ELSE "filter"
              /\ fidx' = IF t.brk THEN fidx ELSE fidx + 1
     ELSE /\ epc' = "append"
          /\ UNCHANGED <<matches_all, eraised, fidx>>
  /\ UNCHANGED <<buildings, filter_obj, filters, bidx, matching_ids>>

\* lines 179-180: if matches_all: matching_ids.append(building['id'])
AppendId ==
  /\ UNCHANGED <<ivars, nvars>>
  /\ epc = "append"
  /\ IF matches_all /\ ~HasKey(buildings[bidx], S_id)
     THEN /\ eraised' = "KeyError"
          /\ epc' = "raised"
          /\ UNCHANGED <<matching_ids, bidx>>
     ELSE /\ matching_ids' =
               IF matches_all
               THEN Append(matching_ids, DictGet(buildings[bidx], S_id, PyNone))
               ELSE matching_ids
          /\ bidx' = bidx + 1
          /\ epc' = "building"
          /\ UNCHANGED eraised
  /\ UNCHANGED <<buildings, filter_obj, filters, fidx, matches_all>>

(***************************************************************************)
(* backend/llm_handler.py: extract_json.                                   *)
(*                                                                         *)
(* A completion is a sequence of tokens, each a piece of text: the fence   *)
(* markers (three backquotes, with or without json), the JSON             *)
(* punctuation, a blank, a word of prose, and the JSON members: the key    *)
(* filters with its colon, the member foo: 1, and the three members of a   *)
(* predicate.  The punctuation tokens and the blank are one character      *)
(* long.                                                                   *)
(***************************************************************************)
Tok(x)     == [t |-> x, p |-> <<>>]
PredTok(p) == [t |-> "pred", p |-> p]

FenceJson   == Tok("fence-json")
Fence       == Tok("fence")
LBrace      == Tok("{")
RBrace      == Tok("}")
LBracket    == Tok("[")
RBracket    == Tok("]")
Comma       == Tok(",")
Blank       == Tok(" ")
Prose       == Tok("Sure")
KeyFilters  == Tok("filters:")
MemberFoo   == Tok("foo: 1")
\* what is left of a longer token when its last character is cut off
Junk        == Tok("junk")

OneCharTokens == {LBrace, RBrace, LBracket, RBracket, Comma, Blank}

\* text.strip()
RECURSIVE StripTokens(_)
StripTokens(text) ==
  IF text # <<>> /\ text[1] = Blank THEN StripTokens(Tail(text))
  ELSE IF text # <<>> /\ text[Len(text)] = Blank
  THEN StripTokens(SubSeq(text, 1, Len(text) - 1))
  ELSE text

\* text.find(marker, start) for a marker that is a token or, for the
\* bare fence, the head of one; positions count tokens from 1, 0 stands for -1
FindFrom(text, markers, start) ==
  IF \E i \in start..Len(text) : text[i] \in markers
  THEN CHOOSE i \in start..Len(text) :
         /\ text[i] \in markers
         /\ \A j \in start..(i - 1) : text[j] \notin markers
  ELSE 0

\* text.rfind(marker)
FindLast(text, marker) ==
  IF \E i \in 1..Len(text) : text[i] = marker
  THEN CHOOSE i \in 1..Len(text) :
         /\ text[i] = marker
         /\ \A j \in (i + 1)..Len(text) : text[j] # marker
  ELSE 0

\* text[start:end].strip() between the fences: after the opening fence at
\* position open, up to the closing fence, and, with no closing fence
\* (end = -1), up to the last character, which is left out
FenceInterior(text, open) ==
  LET close == FindFrom(text, {Fence, FenceJson}, open + 1)
  IN  IF close # 0
      THEN StripTokens(SubSeq(text, open + 1, close - 1))
      ELSE IF open = Len(text)
      THEN <<>>
      ELSE IF text[Len(text)] \in OneCharTokens
      THEN StripTokens(SubSeq(text, open + 1, Len(text) - 1))
      ELSE StripTokens(SubSeq(text, open + 1, Len(text) - 1) \o <<Junk>>)

\* d[k] = v on a dict
DictSet(d, k, v) ==
  IF HasKey(d, k)
  THEN [i \in 1..Len(d) |-> IF d[i][1] = k THEN <<k, v>> ELSE d[i]]
  ELSE Append(d, <<k, v>>)

RECURSIVE DictUpdate(_, _)
DictUpdate(d, pairs) ==
  IF pairs = <<>> THEN d
  ELSE DictUpdate(DictSet(d, pairs[1][1], pairs[1][2]), Tail(pairs))

ParseFail == [ok |-> FALSE, val |-> <<>>, next |-> 0]

\* json.loads on tokens: a value at position i is an object or an array;
\* [ok, val, next]
RECURSIVE ParseValue(_, _)
RECURSIVE ParseMembers(_, _, _)
RECURSIVE ParseItems(_, _, _)
ParseValue(t, i) ==
  IF i + 1 > Len(t) THEN ParseFail
  ELSE IF t[i] = LBrace
  THEN IF t[i + 1] = RBrace
       THEN [ok |-> TRUE, val |-> <<>>, next |-> i + 2]
       ELSE ParseMembers(t, i + 1, <<>>)
  ELSE IF t[i] = LBracket
  THEN IF t[i + 1] = RBracket
       THEN [ok |-> TRUE, val |-> <<>>, next |-> i + 2]
       ELSE ParseItems(t, i + 1, <<>>)
  ELSE ParseFail

ParseMembers(t, i, acc) ==
  IF i > Len(t) THEN ParseFail
  ELSE
    LET m == IF t[i] = MemberFoo
             THEN [ok |-> TRUE, val |-> DictSet(acc, "foo", PyInt(1)),
                   next |-> i + 1]
             ELSE IF t[i].t = "pred"
             THEN [ok |-> TRUE, val |-> DictUpdate(acc, t[i].p),
                   next |-> i + 1]
             ELSE IF t[i] = KeyFilters
             THEN LET v == ParseValue(t, i + 1)
                  IN  IF v.ok
                      THEN [ok |-> TRUE, val |-> DictSet(acc, "filters", v.val),
                            next |-> v.next]
                      ELSE ParseFail
             ELSE ParseFail
    IN  IF ~m.ok \/ m.next > Len(t) THEN ParseFail
        ELSE IF t[m.next] = RBrace
        THEN [ok |-> TRUE, val |-> m.val, next |-> m.next + 1]
        ELSE IF t[m.next] = Comma
        THEN ParseMembers(t, m.next + 1, m.val)
        ELSE ParseFail

ParseItems(t, i, acc) ==
  LET v == ParseValue(t, i)
  IN  IF ~v.ok \/ v.next > Len(t) THEN ParseFail
      ELSE IF t[v.next] = RBracket
      THEN [ok |-> TRUE, val |-> Append(acc, v.val), next |-> v.next + 1]
      ELSE IF t[v.next] = Comma
      THEN ParseItems(t, v.next + 1, Append(acc, v.val))
      ELSE ParseFail

\* json.loads(json_str): blanks between tokens are insignificant, the
\* whole string must be one value
JsonLoads(json_str) ==
  LET t == SelectSeq(json_str, LAMBDA x : x # Blank)
      v == ParseValue(t, 1)
  IN  IF v.ok /\ v.next = Len(t) + 1
      THEN [exc |-> "none", val |-> v.val]
      ELSE [exc |-> "JSONDecodeError", val |-> <<>>]

\* The outcome of extract_json: [exc, none, val].  text is a token
\* sequence, or NotText for a content that is no string (None).
NotText == <<Tok("None")>>

extract_json(text) ==
  IF text = NotText
  THEN [exc |-> "AttributeError", none |-> TRUE, val |-> <<>>]
  ELSE
    LET stripped == StripTokens(text)
        inner ==
          IF \E i \in 1..Len(stripped) : stripped[i] = FenceJson
          THEN FenceInterior(stripped, FindFrom(stripped, {FenceJson}, 1))
          ELSE IF \E i \in 1..Len(stripped) : stripped[i] = Fence
          THEN FenceInterior(stripped, FindFrom(stripped, {Fence}, 1))
          ELSE stripped
        start == FindFrom(inner, {LBrace}, 1)
        end   == FindLast(inner, RBrace)
    IN  IF start # 0 /\ end > start
        THEN LET r == JsonLoads(SubSeq(inner, start, end))
             IN  IF r.exc = "none"
                 THEN [exc |-> "none", none |-> FALSE, val |-> r.val]
                 ELSE [exc |-> "none", none |-> TRUE, val |-> <<>>]
        ELSE [exc |-> "none", none |-> TRUE, val |-> <<>>]

(***************************************************************************)
(* Completions the model may return (the content of the first choice).     *)
(***************************************************************************)
PredHeight == Pred(S_height, ">", PyInt(100))

PredQuadrant == Pred(S_address, "endswith", PyStr(Upper(S_nw)))

ObjectOf(members) == <<LBrace>> \o members \o <<RBrace>>

\* {"filters": [{...}, ...]}
FiltersDoc(preds) ==
  ObjectOf(<<KeyFilters, Blank, LBracket>>
           \o (IF Len(preds) = 0 THEN <<>>
               ELSE IF Len(preds) = 1 THEN ObjectOf(<<PredTok(preds[1])>>)
               ELSE ObjectOf(<<PredTok(preds[1])>>) \o <<Comma, Blank>>
                    \o ObjectOf(<<PredTok(preds[2])>>))
           \o <<RBracket>>)

Completions ==
  { \* the object alone, with one and with two predicates
    FiltersDoc(<<PredHeight>>),
    FiltersDoc(<<PredHeight, PredQuadrant>>),
    \* in a json fence, in a bare fence, with prose around
    <<FenceJson, Blank>> \o FiltersDoc(<<PredHeight>>) \o <<Blank, Fence>>,
    <<Prose, Blank, Fence, Blank>> \o FiltersDoc(<<PredQuadrant>>)
       \o <<Blank, Fence, Blank, Prose>>,
    <<Prose, Blank>> \o FiltersDoc(<<PredHeight>>) \o <<Blank, Prose>>,
    \* a json fence that is never closed
    <<FenceJson, Blank>> \o FiltersDoc(<<PredHeight>>),
    \* an empty filters array, an empty object, an object without filters
    FiltersDoc(<<>>),
    ObjectOf(<<>>),
    ObjectOf(<<MemberFoo>>),
    \* a single predicate object, and a filters member outside any object
    ObjectOf(<<PredTok(PredHeight)>>),
    <<KeyFilters, Blank, LBracket>> \o ObjectOf(<<PredTok(PredQuadrant)>>)
       \o <<RBracket>>,
    \* no JSON: prose only, a truncated object, braces in the wrong order,
    \* two objects, nothing
    <<Prose, Blank, Prose>>,
    <<LBrace, KeyFilters, Blank, LBracket>> \o ObjectOf(<<PredTok(PredHeight)>>),
    <<RBrace, Blank, LBrace>>,
    ObjectOf(<<MemberFoo>>) \o <<Blank, Prose, Blank>> \o ObjectOf(<<MemberFoo>>),
    <<>> }

(***************************************************************************)
(* backend/llm_handler.py: query, process_query, fallback_parser.          *)
(***************************************************************************)
\* The names bound in the module's namespace: the imports of lines 1-4
\* and the module's own assignments and functions.  There is no
\* "import re".
ModuleGlobals ==
  {"os", "json", "requests", "load_dotenv", "HF_TOKEN", "API_URL", "headers",
   "query", "process_query", "extract_json", "fallback_parser",
   "extract_number"}

\* whether evaluating the global name succeeds (else NameError)
NameBound(name) == name \in ModuleGlobals

\* The decoded body of the HTTP answer, by its shape.
Body(shape, content) == [shape |-> shape, content |-> content]

ResponseBodies ==
  { Body("error", <<>>),          \* {"error": ...}
    Body("no_choices", <<>>),     \* {}
    Body("empty_choices", <<>>),  \* {"choices": []}
    Body("no_message", <<>>),     \* {"choices": [{}]}
    Body("null", <<>>),           \* null
    Body("list", <<>>),           \* []
    Body("error_list", <<>>) }    \* ["error"]
  \cup {Body("completion", c) : c \in Completions \cup {NotText}}

\* requests.post raises (no connection, timeout after 60 s), or
\* response.json() raises on a body that is no JSON (a RequestException
\* from requests 2.27 on, a plain ValueError before), or the body decodes.
GatewayOutcomes ==
  { [kind |-> "raise", exn |-> "RequestException", body |-> Body("none", <<>>)],
    [kind |-> "raise", exn |-> "ValueError", body |-> Body("none", <<>>)] }
  \cup {[kind |-> "json", exn |-> "none", body |-> b] : b \in ResponseBodies}

\* "error" in response
ErrorIn(r) ==
  CASE r.shape = "null"                  -> [exc |-> "TypeError", val |-> FALSE]
    [] r.shape \in {"error", "error_list"} -> [exc |-> "none", val |-> TRUE]
    [] OTHER                             -> [exc |-> "none", val |-> FALSE]

\* response['error'], evaluated by the print of line 95
ErrorOf(r) == IF r.shape = "error" THEN "none" ELSE "TypeError"

\* response["choices"][0]["message"]["content"]
ChoiceContent(r) ==
  CASE r.shape = "completion"    -> [exc |-> "none", val |-> r.content]
    [] r.shape = "no_choices"    -> [exc |-> "KeyError", val |-> <<>>]
    [] r.shape = "no_message"    -> [exc |-> "KeyError", val |-> <<>>]
    [] r.shape = "empty_choices" -> [exc |-> "IndexError", val |-> <<>>]
    [] OTHER                     -> [exc |-> "TypeError", val |-> <<>>]

\* the except clause of process_query that takes an exception raised in
\* the try body
ExceptClause(e) ==
  IF e = "RequestException" THEN "except_request"
  ELSE IF e = "KeyError" THEN "except_key"
  ELSE "except_exception"

\* if filter_obj: (None and the empty dict are false)
Truthy(x) == ~x.none /\ x.val # <<>>

NoResult == [success |-> FALSE, filter |-> <<>>, source |-> "none"]

Q_in_the == <<"i","n"," ","t","h","e"," ">>

Q_in == <<"i","n"," ">>

Q_calgary == <<" ","c","a","l","g","a","r","y">>

Q_area == <<" ","a","r","e","a">>

\* for quad in ['nw', 'ne', 'sw', 'se']
Quads == <<<<"n","w">>, <<"n","e">>, <<"s","w">>, <<"s","e">>>>

QuadMatches(q, quad) ==
  \/ Contains(q, Q_in_the \o quad)
  \/ Contains(q, Q_in \o quad)
  \/ Contains(q, <<" ">> \o quad \o Q_calgary)
  \/ Contains(q, <<" ">> \o quad \o Q_area)
  \/ EndsWith(q, <<" ">> \o quad)

\* the quadrant loop: the predicate of the first quadrant that matches
QuadrantFilters(q) ==
  IF \E i \in 1..Len(Quads) : QuadMatches(q, Quads[i])
  THEN LET i == CHOOSE k \in 1..Len(Quads) :
                  /\ QuadMatches(q, Quads[k])
                  /\ \A j \in 1..(k - 1) : ~QuadMatches(q, Quads[j])
       IN  <<Pred(S_address, "endswith", PyStr(Upper(Quads[i])))>>
  ELSE <<>>

\* user texts (app.py hands over no empty one)
Queries ==
  { <<"i","n"," ","t","h","e"," ","N","W">>,
    <<"g","o"," ","S","E">>,
    <<"i","n"," ","s","w"," ","i","n"," ","n","e">>,
    <<"o","v","e","r"," ","1","0","0"," ","f","e","e","t">>,
    <<"h","i">> }

InitInterpVars ==
  /\ pc = "call_query"
  /\ user_query \in Queries
  /\ gateway \in GatewayOutcomes
  /\ response = Body("none", <<>>)
  /\ generated_text = <<>>
  /\ pq_filter_obj = [exc |-> "none", none |-> TRUE, val |-> <<>>]
  /\ result = NoResult
  /\ exc = "none"
  /\ site = "none"
  /\ query_lower = <<>>
  /\ fb_filters = <<>>
  /\ n_query = 0
  /\ n_fallback = 0

\* lines 74-92 and query(): the one POST, its body decoded
CallQuery ==
  /\ UNCHANGED <<evars, nvars>>
  /\ pc = "call_query"
  /\ n_query' = n_query + 1
  /\ IF gateway.kind = "raise"
     THEN /\ exc' = gateway.exn
          /\ pc' = ExceptClause(gateway.exn)
          /\ UNCHANGED response
     ELSE /\ response' = gateway.body
          /\ pc' = "check_error"
          /\ UNCHANGED exc
  /\ UNCHANGED <<user_query, gateway, generated_text, pq_filter_obj, result,
                 site, query_lower, fb_filters, n_fallback>>

\* lines 94-96: an error payload leads to the parser, from inside the try
CheckError ==
  /\ UNCHANGED <<evars, nvars>>
  /\ pc = "check_error"
  /\ LET e == ErrorIn(response)
     IN  IF e.exc # "none"
         THEN /\ exc' = e.exc
              /\ pc' = ExceptClause(e.exc)
              /\ UNCHANGED site
         ELSE IF e.val /\ ErrorOf(response) # "none"
         THEN /\ exc' = ErrorOf(response)
              /\ pc' = ExceptClause(ErrorOf(response))
              /\ UNCHANGED site
         ELSE IF e.val
         THEN /\ site' = "try_error"
              /\ pc' = "fallback_parser"
              /\ UNCHANGED exc
         ELSE /\ pc' = "get_text"
              /\ UNCHANGED <<exc, site>>
  /\ UNCHANGED <<user_query, gateway, response, generated_text, pq_filter_obj,
                 result, query_lower, fb_filters, n_query, n_fallback>>

\* line 100
GetText ==
  /\ UNCHANGED <<evars, nvars>>
  /\ pc = "get_text"
  /\ LET c == ChoiceContent(response)
     IN  IF c.exc # "none"
         THEN /\ exc' = c.exc
              /\ pc' = ExceptClause(c.exc)
              /\ UNCHANGED generated_text
         ELSE /\ generated_text' = c.val
              /\ pc' = "extract"
              /\ UNCHANGED exc
  /\ UNCHANGED <<user_query, gateway, response, pq_filter_obj, result, site,
                 query_lower, fb_filters, n_query, n_fallback>>

\* line 103
ExtractJson ==
  /\ UNCHANGED <<evars, nvars>>
  /\ pc = "extract"
  /\ LET x == extract_json(generated_text)
     IN  IF x.exc # "none"
         THEN /\ exc' = x.exc
              /\ pc' = ExceptClause(x.exc)
              /\ UNCHANGED pq_filter_obj
         ELSE /\ pq_filter_obj' = x
              /\ pc' = "decide"
              /\ UNCHANGED exc
  /\ UNCHANGED <<user_query, gateway, response, generated_text, result, site,
                 query_lower, fb_filters, n_query, n_fallback>>

\* lines 105-115: the model's filter is returned, or the parser is called
\* from inside the try
Decide ==
  /\ UNCHANGED <<evars, nvars>>
  /\ pc = "decide"
  /\ IF Truthy(pq_filter_obj)
     THEN /\ result' = [success |-> TRUE, filter |-> pq_filter_obj.val,
                        source |-> "LLM"]
          /\ pc' = "returned"
          /\ UNCHANGED site
     ELSE /\ site' = "try_nojson"
          /\ pc' = "fallback_parser"
          /\ UNCHANGED result
  /\ UNCHANGED <<user_query, gateway, response, generated_text, pq_filter_obj,
                 exc, query_lower, fb_filters, n_query, n_fallback>>

\* lines 119-121
ExceptRequest ==
  /\ UNCHANGED <<evars, nvars>>
  /\ pc = "except_request"
  /\ site' = "except_request"
  /\ pc' = "fallback_parser"
  /\ UNCHANGED <<user_query, gateway, response, generated_text, pq_filter_obj,
                 result, exc, query_lower, fb_filters, n_query, n_fallback>>

\* lines 124-126
ExceptKeyError ==
  /\ UNCHANGED <<evars, nvars>>
  /\ pc = "except_key"
  /\ site' = "except_key"
  /\ pc' = "fallback_parser"
  /\ UNCHANGED <<user_query, gateway, response, generated_text, pq_filter_obj,
                 result, exc, query_lower, fb_filters, n_query, n_fallback>>

\* lines 129-133
ExceptException ==
  /\ UNCHANGED <<evars, nvars>>
  /\ pc = "except_exception"
  /\ site' = "except_exception"
  /\ pc' = "fallback_parser"
  /\ UNCHANGED <<user_query, gateway, response, generated_text, pq_filter_obj,
                 result, exc, query_lower, fb_filters, n_query, n_fallback>>

\* fallback_parser, lines 164-181: the lower-cased text and the quadrant
\* detector
FallbackQuadrant ==
  /\ UNCHANGED <<evars, nvars>>
  /\ pc = "fallback_parser"
  /\ n_fallback' = n_fallback + 1
  /\ query_lower' = Lower(user_query)
  /\ fb_filters' = QuadrantFilters(Lower(user_query))
  /\ pc' = "street"
  /\ UNCHANGED <<user_query, gateway, response, generated_text, pq_filter_obj,
                 result, exc, site, n_query>>

\* fallback_parser, lines 184-189: the street detector evaluates
\* re.search, and the name re is not bound: NameError.  Raised in a call
\* from the try body it is taken by "except Exception"; raised in a call
\* from an except clause it leaves process_query.  Nothing after line 189
\* is ever executed.
FallbackStreet ==
  /\ UNCHANGED <<evars, nvars>>
  /\ pc = "street"
  /\ ~NameBound("re")
  /\ exc' = "NameError"
  /\ pc' = IF site \in {"try_error", "try_nojson"}
           THEN ExceptClause("NameError")
           ELSE "raised"
  /\ UNCHANGED <<user_query, gateway, response, generated_text, pq_filter_obj,
                 result, site, query_lower, fb_filters, n_query, n_fallback>>

(***************************************************************************)
(* backend/llm_handler.py, extract_number.  The texts of the model are     *)
(* spelt with letters, digits, the blank, "$" and ",": they hold no ".",   *)
(* so the optional group (?:\.\d+)? of the patterns matches nothing and    *)
(* every number is integral.                                               *)
(***************************************************************************)
W_million == <<"m","i","l","l","i","o","n">>

W_k == <<"k">>

W_thousand == <<"t","h","o","u","s","a","n","d">>

\* \w
IsWordChar(c) ==
  \/ IsDigit(c)
  \/ c = "_"
  \/ \E i \in 1..26 : LowerAlphabet[i] = c \/ UpperAlphabet[i] = c

\* [\d,]
IsNumChar(c) == IsDigit(c) \/ c = ","

\* the position after the longest run of digits that starts at i  (\d+)
RECURSIVE DigitRunEnd(_, _)
DigitRunEnd(s, i) ==
  IF i <= Len(s) /\ IsDigit(s[i]) THEN DigitRunEnd(s, i + 1) ELSE i

\* the position after the longest run of blanks that starts at i  (\s*)
RECURSIVE BlankRunEnd(_, _)
BlankRunEnd(s, i) ==
  IF i <= Len(s) /\ s[i] = " " THEN BlankRunEnd(s, i + 1) ELSE i

\* the position after the longest run of digits and commas that starts at
\* i  ([\d,]+)
RECURSIVE NumRunEnd(_, _)
NumRunEnd(s, i) ==
  IF i <= Len(s) /\ IsNumChar(s[i]) THEN NumRunEnd(s, i + 1) ELSE i

\* (\d+)\s*word matches at position i, with \b after the word when boundary
SuffixMatchAt(s, i, word, boundary) ==
  /\ IsDigit(s[i])
  /\ LET k == BlankRunEnd(s, DigitRunEnd(s, i))
         e == k + Len(word)
     IN  /\ e - 1 <= Len(s)
         /\ SubSeq(s, k, e - 1) = word
         /\ boundary => (e > Len(s) \/ ~IsWordChar(s[e]))

NoMatch == [found |-> FALSE, group |-> <<>>]

Min(S) == CHOOSE x \in S : \A y \in S : x <= y

\* re.search(r'(\d+(?:\.\d+)?)\s*word', s): the leftmost match, group(1)
SearchSuffix(s, word, boundary) ==
  LET hits == {i \in 1..Len(s) : SuffixMatchAt(s, i, word, boundary)}
  IN  IF hits = {} THEN NoMatch
      ELSE [found |-> TRUE,
            group |-> SubSeq(s, Min(hits), DigitRunEnd(s, Min(hits)) - 1)]

\* re.search(r'\$?([\d,]+(?:\.\d+)?)', s): the leftmost match, group(1)
SearchPlain(s) ==
  LET hits == {i \in 1..Len(s) : IsNumChar(s[i])}
  IN  IF hits = {} THEN NoMatch
      ELSE [found |-> TRUE,
            group |-> SubSeq(s, Min(hits), NumRunEnd(s, Min(hits)) - 1)]

\* s.replace(',', '')
RemoveCommas(s) ==
  LET NotComma(c) == c # "," IN SelectSeq(s, NotComma)

\* float(s) * m
FloatTimes(s, m) ==
  LET f == Float(PyStr(s))
  IN  IF f.exc = "none" THEN Ok(PyFloat(f.val.n * m)) ELSE f

\* lines 263-282: the four searches in the order of the code
SearchNumber(t, tl) ==
  LET million  == SearchSuffix(tl, W_million, FALSE)
      k        == SearchSuffix(tl, W_k, TRUE)
      thousand == SearchSuffix(tl, W_thousand, FALSE)
      plain    == SearchPlain(t)
  IN  IF million.found THEN FloatTimes(million.group, 1000000)
      ELSE IF k.found THEN FloatTimes(k.group, 1000)
      ELSE IF thousand.found THEN FloatTimes(thousand.group, 1000)
      ELSE IF plain.found THEN FloatTimes(RemoveCommas(plain.group), 1)
      ELSE Ok(PyNone)

\* extract_number(text): the name re is looked up at line 263
extract_number(t) ==
  IF NameBound("re") THEN SearchNumber(t, Lower(t)) ELSE Raise("NameError")

\* the characters short texts are spelt with
TextChars == {"1", "5", ",", "$", " ", "k", "K", "x"}

T_1_million == <<"1"," ","m","i","l","l","i","o","n">>

T_500k == <<"5","0","0","k">>

T_2500 == <<"$","2",",","5","0","0">>

T_5k_1_million == <<"5","k"," ","1"," ","M","i","l","l","i","o","n">>

T_3_thousand_5k == <<"3"," ","t","h","o","u","s","a","n","d"," ","5","k">>

T_2_thousand == <<"2","t","h","o","u","s","a","n","d">>

T_5_km == <<"5"," ","k","m">>

T_under_1_2 == <<"u","n","d","e","r"," ","$","1",",",",","2">>

\* the texts handed to extract_number: every text of at most MaxTextLen
\* characters, the texts of the queries, and texts with the suffixes
Texts ==
  UNION {[1..n -> TextChars] : n \in 0..MaxTextLen}
    \cup Queries
    \cup {T_1_million, T_500k, T_2500, T_5k_1_million, T_3_thousand_5k,
          T_2_thousand, T_5_km, T_under_1_2}

InitExtractVars ==
  /\ ntext \in Texts
  /\ text_lower = <<>>
  /\ npc = "start"
  /\ nout = Ok(PyNone)

\* line 260
ExtractLower ==
  /\ UNCHANGED <<evars, ivars>>
  /\ npc = "start"
  /\ text_lower' = Lower(ntext)
  /\ npc' = "search"
  /\ UNCHANGED <<ntext, nout>>

\* lines 263-282
ExtractSearch ==
  /\ UNCHANGED <<evars, ivars>>
  /\ npc = "search"
  /\ nout' = IF NameBound("re")
             THEN SearchNumber(ntext, text_lower)
             ELSE Raise("NameError")
  /\ npc' = IF nout'.exc = "none" THEN "returned" ELSE "raised"
  /\ UNCHANGED <<ntext, text_lower>>

(***************************************************************************)
(* Specifications: apply_filter, process_query and extract_number, each    *)
(* on its inputs; the variables of the others stay as they are.            *)
(***************************************************************************)
IdleEval ==
  /\ buildings = <<>> /\ filter_obj = <<>> /\ filters = <<>>
  /\ bidx = 0 /\ fidx = 0 /\ matches_all = TRUE /\ matching_ids = <<>>
  /\ epc = "idle" /\ eraised = "none"

IdleInterp ==
  /\ pc = "idle" /\ user_query = <<>>
  /\ gateway = [kind |-> "none", exn |-> "none", body |-> Body("none", <<>>)]
  /\ response = Body("none", <<>>) /\ generated_text = <<>>
  /\ pq_filter_obj = [exc |-> "none", none |-> TRUE, val |-> <<>>]
  /\ result = NoResult /\ exc = "none" /\ site = "none"
  /\ query_lower = <<>> /\ fb_filters = <<>> /\ n_query = 0 /\ n_fallback = 0

IdleExtract ==
  /\ ntext = <<>> /\ text_lower = <<>> /\ npc = "idle" /\ nout = Ok(PyNone)

InitEval == InitEvalVars /\ IdleInterp /\ IdleExtract

NextEval == EvalStart \/ NextBuilding \/ InnerStep \/ AppendId

SpecEval == InitEval /\ [][NextEval]_vars

InitInterp == InitInterpVars /\ IdleEval /\ IdleExtract

NextInterp ==
  \/ CallQuery \/ CheckError \/ GetText \/ ExtractJson \/ Decide
  \/ ExceptRequest \/ ExceptKeyError \/ ExceptException
  \/ FallbackQuadrant \/ FallbackStreet

SpecInterp == InitInterp /\ [][NextInterp]_vars

InitExtract == InitExtractVars /\ IdleEval /\ IdleInterp

NextExtract == ExtractLower \/ ExtractSearch

SpecExtract == InitExtract /\ [][NextExtract]_vars

(***************************************************************************)
(* Properties of apply_filter (specification SpecEval).                    *)
(***************************************************************************)
\* the predicates apply_filter works through
EvalFilters == FiltersOf(filter_obj)

IdOf(b) == DictGet(b, S_id, PyNone)

\* the record's id is in the result
InResult(b) == \E i \in 1..Len(matching_ids) : matching_ids[i] = IdOf(b)

BuildingSet == {buildings[i] : i \in 1..Len(buildings)}

FilterSet == {EvalFilters[i] : i \in 1..Len(EvalFilters)}

\* predicate f tested on record b on its own
PassesAlone(b, f) ==
  LET t == TestFilter(b, f, TRUE) IN t.exc = "none" /\ t.flag

PassesEvery(b) == \A i \in 1..Len(EvalFilters) : PassesAlone(b, EvalFilters[i])

\* the ids of the records that pass every predicate, in input order
ExpectedIds ==
  LET kept == SelectSeq(buildings, PassesEvery)
  IN  [i \in 1..Len(kept) |-> IdOf(kept[i])]

\* C1: apply_filter never raises and returns exactly the ids of the
\* records that pass every predicate tested on its own, one id per such
\* record, in the order of the input records.
C1_ConjunctionInOrder ==
  /\ epc # "raised"
  /\ epc = "done" => matching_ids = ExpectedIds

\* C1 witness: two predicates on two records, one record returned, the
\* other passing one predicate and failing the other.
C1_Witness ==
  /\ epc = "done"
  /\ Len(EvalFilters) = 2
  /\ Len(buildings) = 2
  /\ Len(matching_ids) = 1
  /\ \E b \in BuildingSet :
       /\ ~InResult(b)
       /\ PassesAlone(b, EvalFilters[1])
       /\ ~PassesAlone(b, EvalFilters[2])

\* The kinds the schema declares (llm_handler.py, the system prompt).
NumericAttributes == {S_height, S_assessed_value, S_land_size_sf}

TextAttributes == {S_zoning, S_building_type, S_address}

OperatorOf(f) == DictGet(f, "operator", "")

ValueOf(f) == DictGet(f, "value", PyNone)

\* the attribute name resolves through the alias table
Resolves(f) == HasKey(attribute_map, Lower(DictGet(f, "attribute", <<>>)))

ResolvedName(f) ==
  DictGet(attribute_map, Lower(DictGet(f, "attribute", <<>>)), <<>>)

MatchOnNumeric(f) ==
  /\ Resolves(f)
  /\ ResolvedName(f) \in NumericAttributes
  /\ OperatorOf(f) \in MatchOperators

RelationalOnText(f) ==
  /\ Resolves(f)
  /\ ResolvedName(f) \in TextAttributes
  /\ OperatorOf(f) \in RelationalOperators

\* the operator is not valid for the kind of the attribute
InvalidForKind(f) == MatchOnNumeric(f) \/ RelationalOnText(f)

\* the match test of an operator on two upper-cased texts
MatchHolds(operator, stored, wanted) ==
  CASE operator = "contains"   -> Contains(stored, wanted)
    [] operator = "startswith" -> StartsWith(stored, wanted)
    [] operator = "endswith"   -> EndsWith(stored, wanted)
    [] OTHER                   -> stored = wanted

PassesOn(f, stored) ==
  LET r == TryBody(OperatorOf(f), stored, ValueOf(f))
  IN  r.exc = "none" /\ ~r.fails

\* the record's field under the predicate's lower-cased literal name
LiteralField(b, f) ==
  DictGet(b, Lower(DictGet(f, "attribute", <<>>)), PyNone)

\* C3 as stated: a predicate whose attribute name does not resolve
\* through the alias table matches no record, so the result is empty.
C3_UnresolvedNeverMatches ==
  (epc = "done" /\ \E f \in FilterSet : ~Resolves(f)) => matching_ids = <<>>

\* C3 amended: a name outside the alias table is looked up in the record
\* under its lower-cased literal name: a record without a value under
\* that name is never returned, and with this as the only predicate a
\* record is returned exactly when it has a value under that name and the
\* predicate passes on it.
C3_UnresolvedIsLiteralField ==
  epc = "done" =>
    \A b \in BuildingSet : \A f \in FilterSet :
      ~Resolves(f) =>
        /\ InResult(b) => LiteralField(b, f) # PyNone
        /\ Len(EvalFilters) = 1 =>
             (InResult(b) <=> /\ LiteralField(b, f) # PyNone
                              /\ PassesOn(f, LiteralField(b, f)))

\* C3 witness: a predicate on a name outside the alias table returned a
\* record.
C3_Witness ==
  /\ epc = "done"
  /\ matching_ids # <<>>
  /\ \E f \in FilterSet : ~Resolves(f)

\* float() gives a number for v
Coercible(v) == IsNumber(v) \/ (v.k = "str" /\ IsNumericText(v.s))

\* the record has no value for the predicate's attribute
NoValue(b, f) == DictGet(b, ActualAttribute(f), PyNone) = PyNone

\* a relational predicate one side of which is no number
CoercionFails(b, f) ==
  /\ ~NoValue(b, f)
  /\ OperatorOf(f) \in RelationalOperators
  /\ \/ ~Coercible(DictGet(b, ActualAttribute(f), PyNone))
     \/ ~Coercible(ValueOf(f))

\* C9: a record without a value for the predicate's attribute, or with a
\* relational predicate one side of which cannot be coerced to a number,
\* is never among the results, and apply_filter never raises.
C9_AnomalyExcludes ==
  /\ epc # "raised"
  /\ \A b \in BuildingSet : \A f \in FilterSet :
       (NoValue(b, f) \/ CoercionFails(b, f)) => ~InResult(b)

\* C9 witness: apply_filter returned, having excluded one record for a
\* failed coercion and one for a missing value.
C9_Witness ==
  /\ epc = "done"
  /\ \E b \in BuildingSet : \E f \in FilterSet :
       CoercionFails(b, f) /\ ~InResult(b)
  /\ \E b \in BuildingSet : \E f \in FilterSet :
       NoValue(b, f) /\ ~InResult(b)

\* The names the schema gives each attribute: the canonical name and its
\* aliases.
AliasClasses ==
  {{S_height},
   {S_value, S_assessed_value},
   {S_zone, S_zoning},
   {S_type, S_building_type},
   {S_street, S_address},
   {S_lot_size, S_land_size, S_land_size_sf}}

\* a and b name the same attribute, whatever their letter case
SameAttribute(a, b) ==
  \E c \in AliasClasses : Lower(a) \in c /\ Lower(b) \in c

\* the predicates that differ from f only in the name given to its attribute
AliasVariants(f) ==
  IF HasKey(f, "attribute")
  THEN {Pred(a, OperatorOf(f), ValueOf(f)) :
          a \in {x \in AttributeNames :
                   SameAttribute(x, DictGet(f, "attribute", <<>>))}}
       \cup {f}
  ELSE {f}

\* the filter lists that differ from fs only in the names of attributes
AliasVariantLists(fs) ==
  {gs \in [1..Len(fs) -> UNION {AliasVariants(fs[i]) : i \in 1..Len(fs)}] :
     \A i \in 1..Len(fs) : gs[i] \in AliasVariants(fs[i])}

\* the ids of the records that pass every predicate of fs, in input order
IdsPassing(fs) ==
  LET Keep(b) == \A i \in 1..Len(fs) : PassesAlone(b, fs[i])
      kept    == SelectSeq(buildings, Keep)
  IN  [i \in 1..Len(kept) |-> IdOf(kept[i])]

\* C11: naming an attribute by an alias or by its canonical name, in any
\* letter case, does not change the result: what apply_filter returned is
\* what every filter list differing only in those names gives for the same
\* records, operators and values.
C11_AliasEquivalence ==
  epc = "done" =>
    \A gs \in AliasVariantLists(EvalFilters) : IdsPassing(gs) = matching_ids

\* C11 witness: apply_filter returned a record for a predicate that names
\* its attribute by an alias, and the same predicate under the canonical
\* name is another predicate.
C11_Witness ==
  /\ epc = "done"
  /\ matching_ids # <<>>
  /\ \E f \in FilterSet :
       /\ HasKey(f, "attribute")
       /\ DictGet(f, "attribute", <<>>) \in {S_value, S_Value, S_zone, S_type,
                                             S_street, S_lot_size, S_land_size}
       /\ \E g \in AliasVariants(f) :
            g # f /\ DictGet(g, "attribute", <<>>) = ActualAttribute(f)

(***************************************************************************)
(* Properties of process_query and fallback_parser (specification          *)
(* SpecInterp).  The provenance tags of the program: LLM (the model's      *)
(* filter), FALLBACK (the parser called directly), FALLBACK_ERROR (after a *)
(* transport failure), FALLBACK_PARSE_ERROR (after a parse failure),       *)
(* FALLBACK_EXCEPTION (after any other failure).                           *)
(***************************************************************************)
\* process_query has ended: it returned a dict or an exception left it
Ended == pc \in {"returned", "raised"}

\* the filter object holds at least one predicate: a non-empty "filters"
\* array, or a single predicate object
HasPredicate(obj) ==
  IF HasKey(obj, "filters")
  THEN DictGet(obj, "filters", <<>>) # <<>>
  ELSE HasKey(obj, "attribute")

\* C4 as stated: a successful interpretation holds at least one
\* predicate; an extracted object with an empty filters array, or with no
\* filters at all, is not returned as the model's success.
C4_SuccessHasPredicate ==
  (pc = "returned" /\ result.success) => HasPredicate(result.filter)

ProvenanceTags ==
  {"LLM", "FALLBACK", "FALLBACK_ERROR", "FALLBACK_PARSE_ERROR",
   "FALLBACK_EXCEPTION"}

\* C5 as stated: whatever the gateway does and whatever the user text
\* is, process_query ends by returning a result with a success flag and a
\* provenance tag; no exception leaves it.
C5_AlwaysReturnsResult ==
  /\ pc # "raised"
  /\ pc = "returned" => result.source \in ProvenanceTags

\* the gateway call failed: no answer, an answer that is no JSON, or an
\* error payload
GatewayFailed == gateway.kind = "raise" \/ gateway.body.shape = "error"

\* the gateway answered with a completion text
GatewayGaveText ==
  /\ gateway.kind = "json"
  /\ gateway.body.shape = "completion"
  /\ gateway.body.content # NotText

\* the extractor yields an object with at least one predicate
ExtractedUsable ==
  /\ GatewayGaveText
  /\ LET x == extract_json(gateway.body.content)
     IN  ~x.none /\ HasPredicate(x.val)

\* the tag C6 gives each reason
TagOfReason ==
  IF GatewayFailed THEN "FALLBACK_ERROR"
  ELSE IF ExtractedUsable THEN "LLM"
  ELSE IF GatewayGaveText THEN "FALLBACK_PARSE_ERROR"
  ELSE "FALLBACK_EXCEPTION"

\* C6 as stated: the result carries the tag of its reason: a failed
\* gateway call FALLBACK_ERROR, an answer without usable filters
\* FALLBACK_PARSE_ERROR, any other failure FALLBACK_EXCEPTION, and LLM
\* only when the model's output was extracted.
C6_TagNamesReason ==
  Ended => (pc = "returned" /\ result.source = TagOfReason)

\* C7 as stated: on every fallback the result's success flag and
\* FilterSet are those the parser builds from the original user text.
C7_FallbackResultIsParsers ==
  (Ended /\ n_fallback > 0) =>
    /\ pc = "returned"
    /\ result.success = (QuadrantFilters(Lower(user_query)) # <<>>)
    /\ result.success =>
         DictGet(result.filter, "filters", <<>>) = fb_filters

\* C8 as stated: in one call the gateway is called exactly once, first,
\* and the parser at most once, after it; neither is called again.
C8_OneAttemptPerPath ==
  /\ n_query <= 1
  /\ n_fallback <= 1
  /\ n_fallback > 0 => n_query = 1
  /\ Ended => n_query = 1

\* a call of fallback_parser has come to its end
ParserEnded == n_fallback > 0 /\ pc \notin {"fallback_parser", "street"}

\* C10 as stated: a call of fallback_parser ends by returning: success
\* when a detector contributed a predicate, failure otherwise.
C10_ParserReturnsVerdict ==
  ParserEnded =>
    /\ exc # "NameError"
    /\ pc = "returned" => (result.success <=> fb_filters # <<>>)

(***************************************************************************)
(* Properties of extract_number (specification SpecExtract).               *)
(***************************************************************************)
\* extract_number has ended: it returned or an exception left it
ExtractEnded == npc \in {"returned", "raised"}

\* C12 as stated: extract_number never raises; for every text, a text
\* whose numeric-looking token is malformed included, it ends by returning
\* a number or None.
C12_NeverRaises ==
  ExtractEnded =>
    /\ npc = "returned"
    /\ nout.exc = "none"
    /\ nout.val.k \in {"float", "None"}

\* the number the priority order of the patterns gives a text
MillionOf(t) == SearchSuffix(Lower(t), W_million, FALSE)

KOf(t) == SearchSuffix(Lower(t), W_k, TRUE)

ThousandOf(t) == SearchSuffix(Lower(t), W_thousand, FALSE)

PlainOf(t) == SearchPlain(t)

Returned(n) == npc = "returned" /\ nout = Ok(PyFloat(n))

\* C13 as stated: the patterns apply in strict priority.  A text with a
\* '<number> million' match gives number x 1,000,000, whatever else it
\* holds; otherwise a text with a '<number>k' or '<number> thousand' match
\* gives number x 1,000; otherwise a text with a plain number gives that
\* number, its commas stripped.
C13_StrictPriority ==
  ExtractEnded =>
    /\ MillionOf(ntext).found =>
         Returned(DigitsValue(MillionOf(ntext).group) * 1000000)
    /\ (~MillionOf(ntext).found /\ KOf(ntext).found) =>
         Returned(DigitsValue(KOf(ntext).group) * 1000)
    /\ (~MillionOf(ntext).found /\ ~KOf(ntext).found
          /\ ThousandOf(ntext).found) =>
         Returned(DigitsValue(ThousandOf(ntext).group) * 1000)
    /\ (~MillionOf(ntext).found /\ ~KOf(ntext).found
          /\ ~ThousandOf(ntext).found /\ PlainOf(ntext).found
          /\ RemoveCommas(PlainOf(ntext).group) # <<>>) =>
         Returned(DigitsValue(RemoveCommas(PlainOf(ntext).group)))

====
